---------------------------- MODULE Spec2Model ----------------------------
(***************************************************************************)
(* A model of scripts/extract_firebase_schema.py: the one-shot run of      *)
(* main() (fetch, aggregate, build, report, save) and the three pure       *)
(* functions infer_type, extract_complete_schema and build_detailed_schema.*)
(*                                                                         *)
(* Data strings (mapping keys, string values, paths) are sequences of      *)
(* one-character strings, so that sorting, truthiness and the regular      *)
(* expressions are computed and not assumed.  String literals of the       *)
(* program text (type names, descriptions, pc labels) are TLA+ strings.    *)
(*                                                                         *)
(* A JSON value is a tagged record:                                        *)
(*   [t |-> "null"]                  None / null                           *)
(*   [t |-> "bool",  b |-> BOOLEAN]  bool                                  *)
(*   [t |-> "int",   i |-> Int]      int                                   *)
(*   [t |-> "float", tenths |-> Int] float, in tenths (215 is 21.5)        *)
(*   [t |-> "str",   s |-> chars]    str                                   *)
(*   [t |-> "dict",  items |-> <<<<key, value>>, ...>>]  dict, in          *)
(*                                   iteration (insertion) order           *)
(*   [t |-> "list",  elems |-> <<value, ...>>]           list              *)
(***************************************************************************)
EXTENDS Integers, Sequences, FiniteSets, TLC

VARIABLES
    pc,               \* position of main(): see the actions below
    argv,             \* sys.argv
    output_file,      \* main's local output_file
    full_data,        \* main's local full_data
    complete_schema,  \* main's local complete_schema
    detailed_schema,  \* main's local detailed_schema
    fetch_calls,      \* number of calls of fetch() so far
    extract_calls,    \* number of calls of extract_complete_schema() so far
    build_calls,      \* number of top-level calls of build_detailed_schema()
    stdout,           \* what main() printed, one marker per print group
    files,            \* the file system: set of <<name, content>> written
    arg,              \* direct call of a pure function: its argument
    path,             \* direct call of build_detailed_schema: its path
    ret,              \* direct call of a pure function: its result
    called            \* direct call: the function called, "none" before

vars == <<pc, argv, output_file, full_data, complete_schema, detailed_schema,
          fetch_calls, extract_calls, build_calls, stdout, files,
          arg, path, ret, called>>

---------------------------------------------------------------------------
(* Bounds of the model.                                                    *)

\* most entries of a generated mapping
MaxWidth == 2

\* most entries of a generated timestamp-keyed mapping
MaxTsKeys == 4

---------------------------------------------------------------------------
(* Strings.                                                                *)

\* ord() of the characters the model uses
Ord ==
       ("-" :> 45) @@ ("/" :> 47) @@ ("0" :> 48) @@ ("1" :> 49)
    @@ ("2" :> 50) @@ ("3" :> 51) @@ ("4" :> 52) @@ ("5" :> 53)
    @@ ("6" :> 54) @@ ("7" :> 55) @@ ("8" :> 56) @@ ("9" :> 57)
    @@ ("A" :> 65) @@ ("B" :> 66) @@ ("C" :> 67) @@ ("D" :> 68)
    @@ ("E" :> 69) @@ ("F" :> 70) @@ ("G" :> 71) @@ ("H" :> 72)
    @@ ("I" :> 73) @@ ("J" :> 74) @@ ("K" :> 75) @@ ("L" :> 76)
    @@ ("M" :> 77) @@ ("N" :> 78) @@ ("O" :> 79) @@ ("P" :> 80)
    @@ ("Q" :> 81) @@ ("R" :> 82) @@ ("S" :> 83) @@ ("T" :> 84)
    @@ ("U" :> 85) @@ ("V" :> 86) @@ ("W" :> 87) @@ ("X" :> 88)
    @@ ("Y" :> 89) @@ ("Z" :> 90) @@ ("_" :> 95) @@ ("a" :> 97)
    @@ ("b" :> 98) @@ ("c" :> 99) @@ ("d" :> 100) @@ ("e" :> 101)
    @@ ("f" :> 102) @@ ("g" :> 103) @@ ("h" :> 104) @@ ("i" :> 105)
    @@ ("j" :> 106) @@ ("k" :> 107) @@ ("l" :> 108) @@ ("m" :> 109)
    @@ ("n" :> 110) @@ ("o" :> 111) @@ ("p" :> 112) @@ ("q" :> 113)
    @@ ("r" :> 114) @@ ("s" :> 115) @@ ("t" :> 116) @@ ("u" :> 117)
    @@ ("v" :> 118) @@ ("w" :> 119) @@ ("x" :> 120) @@ ("y" :> 121)
    @@ ("z" :> 122)

\* str < str of Python: lexicographic by code point, a proper prefix first
RECURSIVE StrLess(_, _)
StrLess(a, b) ==
    IF b = <<>> THEN FALSE
    ELSE IF a = <<>> THEN TRUE
    ELSE IF Ord[Head(a)] # Ord[Head(b)] THEN Ord[Head(a)] < Ord[Head(b)]
    ELSE StrLess(Tail(a), Tail(b))

\* \d of the regular expressions, on the characters the model uses
IsDigit(c) == Ord[c] >= Ord["0"] /\ Ord[c] <= Ord["9"]

\* one pattern element against one character: "d" is \d, the rest literal
MatchChar(p, c) == IF p = "d" THEN IsDigit(c) ELSE p = c

\* a fixed-width pattern matched at the start of s (re.match anchors there)
MatchPrefix(pat, s) ==
    /\ Len(s) >= Len(pat)
    /\ \A i \in 1..Len(pat) : MatchChar(pat[i], s[i])

\* ^\d{4}-\d{2}-\d{2}_ , the pattern of build_detailed_schema
TsPrefixPattern ==
    <<"d", "d", "d", "d", "-", "d", "d", "-", "d", "d", "_">>

\* ^\d{4}-\d{2}-\d{2}_\d{2}-\d{2}-\d{2}_ , the fixed-width part of ts_regex
TsFixedPattern ==
    TsPrefixPattern \o <<"d", "d", "-", "d", "d", "-", "d", "d", "_">>

\* ts_regex.match(s): the fixed-width part, then \d+ up to the end of s
ts_regex_match(s) ==
    /\ MatchPrefix(TsFixedPattern, s)
    /\ Len(s) > Len(TsFixedPattern)
    /\ \A i \in (Len(TsFixedPattern) + 1)..Len(s) : IsDigit(s[i])

\* re.match(r"^\d{4}-\d{2}-\d{2}_", str(key)) of build_detailed_schema
ts_prefix_match(s) == MatchPrefix(TsPrefixPattern, s)

---------------------------------------------------------------------------
(* JSON values and the Python built-ins the program applies to them.       *)

None == [t |-> "null"]
Bool(b) == [t |-> "bool", b |-> b]
IntV(i) == [t |-> "int", i |-> i]
Float(tenths) == [t |-> "float", tenths |-> tenths]
Str(s) == [t |-> "str", s |-> s]
Dict(items) == [t |-> "dict", items |-> items]
List(elems) == [t |-> "list", elems |-> elems]

\* isinstance(v, bool)
isinstance_bool(v) == v.t = "bool"
\* isinstance(v, int): bool is a subclass of int
isinstance_int(v) == v.t \in {"int", "bool"}
isinstance_float(v) == v.t = "float"
isinstance_str(v) == v.t = "str"
isinstance_dict(v) == v.t = "dict"
isinstance_list(v) == v.t = "list"

\* bool(v), the truth value `not data` and `if sample_record` test
Truthy(v) ==
    CASE v.t = "null" -> FALSE
      [] v.t = "bool" -> v.b
      [] v.t = "int" -> v.i # 0
      [] v.t = "float" -> v.tenths # 0
      [] v.t = "str" -> Len(v.s) > 0
      [] v.t = "lit" -> v.lit # ""
      [] v.t = "dict" -> Len(v.items) > 0
      [] v.t = "list" -> Len(v.elems) > 0

\* list(d.keys()): the keys in iteration order
Keys(d) == [i \in 1..Len(d.items) |-> d.items[i][1]]

\* d[k]
Get(d, k) ==
    LET i == CHOOSE j \in 1..Len(d.items) : d.items[j][1] = k
    IN  d.items[i][2]

Range(s) == {s[i] : i \in 1..Len(s)}

\* insertion of x into the sorted sequence s, after the elements equal to x
RECURSIVE Insert(_, _)
Insert(x, s) ==
    IF s = <<>> THEN <<x>>
    ELSE IF StrLess(x, Head(s)) THEN <<x>> \o s
    ELSE <<Head(s)>> \o Insert(x, Tail(s))

\* sorted(seq) leaving the sequence as it is
sorted_as_is(s) == s

\* sorted(seq) on a sequence of strings
RECURSIVE sorted(_)
sorted(s) ==
    IF s = <<>> THEN <<>>
    ELSE Insert(s[Len(s)], sorted(SubSeq(s, 1, Len(s) - 1)))

\* some enumeration of a set: the order in which Python iterates a set
RECURSIVE SetToSeq(_)
SetToSeq(S) ==
    IF S = {} THEN <<>>
    ELSE LET x == CHOOSE y \in S : TRUE IN <<x>> \o SetToSeq(S \ {x})

\* sorted(a_set)
sorted_set(S) == sorted(SetToSeq(S))

\* infer_type with the test for int placed before the test for bool
infer_type_int_first(value) ==
    IF value = None THEN "null"
    ELSE IF isinstance_int(value) THEN "integer"
    ELSE IF isinstance_bool(value) THEN "boolean"
    ELSE IF isinstance_float(value) THEN "float"
    ELSE IF isinstance_str(value) THEN "string"
    ELSE IF isinstance_dict(value) THEN "object"
    ELSE IF isinstance_list(value) THEN "array"
    ELSE "unknown"

\* infer_type(value): the tests in the order of the source
infer_type(value) ==
    IF value = None THEN "null"
    ELSE IF isinstance_bool(value) THEN "boolean"
    ELSE IF isinstance_int(value) THEN "integer"
    ELSE IF isinstance_float(value) THEN "float"
    ELSE IF isinstance_str(value) THEN "string"
    ELSE IF isinstance_dict(value) THEN "object"
    ELSE IF isinstance_list(value) THEN "array"
    ELSE "unknown"

---------------------------------------------------------------------------
(* extract_complete_schema.                                                *)

\* a string literal of the program held in a variable that may be None
Lit(s) == [t |-> "lit", lit |-> s]

\* the schema built before the guard, returned as it is for a falsy or
\* non-mapping argument
default_schema ==
    [structure |-> "Device_X / BME_XX / HP_XXX / timestamp / { record }",
     levels |-> <<>>,
     record_fields |-> None,
     stats |-> [total_devices |-> 0, total_sensors |-> 0,
                total_hps |-> 0, total_records |-> 0]]

\* the accumulators of the first traversal, as initialised
acc0 ==
    [all_devices |-> {}, all_sensors |-> {}, all_hps |-> {},
     timestamp_pattern |-> None, record_fields |-> {}, total_records |-> 0]

\* ts_step counting an entry only when it is a mapping
ts_step_count_mappings(acc, ts_key, record) ==
    LET a1 == IF ts_regex_match(ts_key)
              THEN [acc EXCEPT !.timestamp_pattern =
                                  Lit("YYYY-MM-DD_HH-MM-SS_nanoseconds")]
              ELSE acc
    IN  IF isinstance_dict(record)
        THEN [a1 EXCEPT !.total_records = @ + 1,
                        !.record_fields = @ \cup Range(Keys(record))]
        ELSE a1

\* ts_step assigning the field names of the record instead of adding them
ts_step_assign_fields(acc, ts_key, record) ==
    LET a1 == IF ts_regex_match(ts_key)
              THEN [acc EXCEPT !.timestamp_pattern =
                                  Lit("YYYY-MM-DD_HH-MM-SS_nanoseconds")]
              ELSE acc
        a2 == [a1 EXCEPT !.total_records = @ + 1]
    IN  IF isinstance_dict(record)
        THEN [a2 EXCEPT !.record_fields = Range(Keys(record))]
        ELSE a2

\* ts_step that also reads the mappings held in a sequence
ts_step_into_lists(acc, ts_key, record) ==
    LET a1 == IF ts_regex_match(ts_key)
              THEN [acc EXCEPT !.timestamp_pattern =
                                  Lit("YYYY-MM-DD_HH-MM-SS_nanoseconds")]
              ELSE acc
        a2 == [a1 EXCEPT !.total_records = @ + 1]
    IN  IF isinstance_dict(record)
        THEN [a2 EXCEPT !.record_fields = @ \cup Range(Keys(record))]
        ELSE IF isinstance_list(record)
        THEN [a2 EXCEPT !.record_fields =
                 @ \cup UNION {Range(Keys(record.elems[i])) :
                                 i \in {j \in 1..Len(record.elems) :
                                          isinstance_dict(record.elems[j])}}]
        ELSE a2

\* one iteration of `for ts_key, record in hp_data.items()`
ts_step(acc, ts_key, record) ==
    LET a1 == IF ts_regex_match(ts_key)
              THEN [acc EXCEPT !.timestamp_pattern =
                                  Lit("YYYY-MM-DD_HH-MM-SS_nanoseconds")]
              ELSE acc
        a2 == [a1 EXCEPT !.total_records = @ + 1]
    IN  IF isinstance_dict(record)
        THEN [a2 EXCEPT !.record_fields = @ \cup Range(Keys(record))]
        ELSE a2

\* for ts_key, record in hp_data.items(), from entry i on
RECURSIVE ts_loop(_, _, _)
ts_loop(acc, items, i) ==
    IF i > Len(items) THEN acc
    ELSE ts_loop(ts_step(acc, items[i][1], items[i][2]), items, i + 1)

\* one iteration of `for hp_id, hp_data in sensor_data.items()`
hp_step(acc, hp_id, hp_data) ==
    LET a1 == [acc EXCEPT !.all_hps = @ \cup {hp_id}]
    IN  IF ~isinstance_dict(hp_data) THEN a1
        ELSE ts_loop(a1, hp_data.items, 1)

RECURSIVE hp_loop(_, _, _)
hp_loop(acc, items, i) ==
    IF i > Len(items) THEN acc
    ELSE hp_loop(hp_step(acc, items[i][1], items[i][2]), items, i + 1)

\* one iteration of `for sensor_id, sensor_data in device_data.items()`
sensor_step(acc, sensor_id, sensor_data) ==
    LET a1 == [acc EXCEPT !.all_sensors = @ \cup {sensor_id}]
    IN  IF ~isinstance_dict(sensor_data) THEN a1
        ELSE hp_loop(a1, sensor_data.items, 1)

RECURSIVE sensor_loop(_, _, _)
sensor_loop(acc, items, i) ==
    IF i > Len(items) THEN acc
    ELSE sensor_loop(sensor_step(acc, items[i][1], items[i][2]), items, i + 1)

\* one iteration of `for device_id, device_data in data.items()`
device_step(acc, device_id, device_data) ==
    LET a1 == [acc EXCEPT !.all_devices = @ \cup {device_id}]
    IN  IF ~isinstance_dict(device_data) THEN a1
        ELSE sensor_loop(a1, device_data.items, 1)

RECURSIVE device_loop(_, _, _)
device_loop(acc, items, i) ==
    IF i > Len(items) THEN acc
    ELSE device_loop(device_step(acc, items[i][1], items[i][2]), items, i + 1)

\* {k: {"type": infer_type(v), "sample": v} for k, v in record.items()}
sample_of(record) ==
    [i \in 1..Len(record.items) |->
        <<record.items[i][1],
          [type |-> infer_type(record.items[i][2]),
           sample |-> record.items[i][2]]>>]

\* sample_ts_loop without its `break`: the last non-empty mapping is kept
RECURSIVE sample_ts_loop_no_break(_, _)
sample_ts_loop_no_break(items, i) ==
    IF i > Len(items) THEN None
    ELSE LET later == sample_ts_loop_no_break(items, i + 1)
         IN  IF Truthy(later) THEN later
             ELSE IF isinstance_dict(items[i][2]) /\ Truthy(items[i][2])
             THEN Dict(sample_of(items[i][2]))
             ELSE None

\* the second traversal, innermost loop: the first entry that is a non-empty
\* mapping sets sample_record and breaks; None when there is none
RECURSIVE sample_ts_loop(_, _)
sample_ts_loop(items, i) ==
    IF i > Len(items) THEN None
    ELSE IF isinstance_dict(items[i][2]) /\ Truthy(items[i][2])
         THEN Dict(sample_of(items[i][2]))
         ELSE sample_ts_loop(items, i + 1)

\* the loops around it: skip a non-mapping, run the inner loop, break as
\* soon as sample_record is truthy
RECURSIVE sample_hp_loop(_, _)
sample_hp_loop(items, i) ==
    IF i > Len(items) THEN None
    ELSE IF ~isinstance_dict(items[i][2]) THEN sample_hp_loop(items, i + 1)
    ELSE LET found == sample_ts_loop(items[i][2].items, 1)
         IN  IF Truthy(found) THEN found ELSE sample_hp_loop(items, i + 1)

RECURSIVE sample_sensor_loop(_, _)
sample_sensor_loop(items, i) ==
    IF i > Len(items) THEN None
    ELSE IF ~isinstance_dict(items[i][2]) THEN sample_sensor_loop(items, i + 1)
    ELSE LET found == sample_hp_loop(items[i][2].items, 1)
         IN  IF Truthy(found) THEN found ELSE sample_sensor_loop(items, i + 1)

RECURSIVE sample_device_loop(_, _)
sample_device_loop(items, i) ==
    IF i > Len(items) THEN None
    ELSE IF ~isinstance_dict(items[i][2]) THEN sample_device_loop(items, i + 1)
    ELSE LET found == sample_sensor_loop(items[i][2].items, 1)
         IN  IF Truthy(found) THEN found ELSE sample_device_loop(items, i + 1)

\* the entry of schema["levels"] for one of the three key levels
level_entry(key_set, description) ==
    [keys |-> sorted_set(key_set),
     count |-> Cardinality(key_set),
     type |-> "object",
     description |-> description]

\* schema["levels"] after the first traversal
levels_of(acc) ==
    [root |-> level_entry(acc.all_devices,
                          "Device IDs (Device_1, Device_2, ...)"),
     device |-> level_entry(acc.all_sensors,
                            "Sensor IDs (BME_01 to BME_16)"),
     sensor |-> level_entry(acc.all_hps,
                            "Heater Profile IDs (Hp_301, Hp_322, ...)"),
     hp |-> [key_pattern |-> IF Truthy(acc.timestamp_pattern)
                             THEN acc.timestamp_pattern.lit
                             ELSE "string",
             type |-> "object",
             description |->
                 "Timestamp keys (YYYY-MM-DD_HH-MM-SS_nanoseconds)"]]

\* schema["record_fields"], with field_types set from the second traversal
record_fields_of(acc, sample_record) ==
    [keys |-> sorted_set(acc.record_fields),
     count |-> Cardinality(acc.record_fields),
     description |-> "Fields in each reading record",
     field_types |-> IF Truthy(sample_record) THEN sample_record.items
                     ELSE <<>>]

\* schema["stats"]
stats_of(acc) ==
    [total_devices |-> Cardinality(acc.all_devices),
     total_sensors |-> Cardinality(acc.all_sensors),
     total_hps |-> Cardinality(acc.all_hps),
     total_records |-> acc.total_records]

\* extract_complete_schema with the guard `if not isinstance(data, dict)`
extract_complete_schema_no_falsy_test(data) ==
    IF ~isinstance_dict(data) THEN default_schema
    ELSE LET acc == device_loop(acc0, data.items, 1)
             sample_record == sample_device_loop(data.items, 1)
         IN  [structure |-> default_schema.structure,
              levels |-> levels_of(acc),
              record_fields |-> record_fields_of(acc, sample_record),
              stats |-> stats_of(acc)]

\* extract_complete_schema(data)
extract_complete_schema(data) ==
    IF ~Truthy(data) \/ ~isinstance_dict(data) THEN default_schema
    ELSE LET acc == device_loop(acc0, data.items, 1)
             sample_record == sample_device_loop(data.items, 1)
         IN  [structure |-> default_schema.structure,
              levels |-> levels_of(acc),
              record_fields |-> record_fields_of(acc, sample_record),
              stats |-> stats_of(acc)]

---------------------------------------------------------------------------
(* build_detailed_schema.  A schema node is a record with the keys of the  *)
(* dict the source returns; _children, _field_types and _sample_values are *)
(* sequences of <<key, value>> in the order the source inserts them.       *)

\* all(not isinstance(data[k], (dict, list)) for k in keys)
all_primitive(data, keys) ==
    \A i \in 1..Len(keys) :
        LET v == Get(data, keys[i])
        IN  ~(isinstance_dict(v) \/ isinstance_list(v))

\* f"{path}/{key}" if path else key
child_path(path_, key) ==
    IF Len(path_) > 0 THEN path_ \o <<"/">> \o key ELSE key

RECURSIVE build_detailed_schema(_, _, _)
\* timestamp_node sampling the first key in sorted order
timestamp_node_sorted_sample(data, path_, depth, keys) ==
    LET sample_ts == sorted(keys)[1]
        sample_record == Get(data, sample_ts)
        record_schema ==
            IF isinstance_dict(sample_record)
            THEN build_detailed_schema(sample_record,
                                       path_ \o <<"/">> \o sample_ts,
                                       depth + 1)
            ELSE [_type |-> infer_type(sample_record)]
    IN  [_path |-> path_,
         _type |-> "object",
         _key_pattern |-> "YYYY-MM-DD_HH-MM-SS_nanoseconds",
         _key_count |-> Len(keys),
         _sample_keys |->
             SubSeq(keys, 1, IF Len(keys) < 3 THEN Len(keys) ELSE 3),
         _record_schema |-> record_schema]

\* the timestamp branch: one sampled entry, the one at keys[0]
timestamp_node(data, path_, depth, keys) ==
    LET sample_ts == keys[1]
        sample_record == Get(data, sample_ts)
        record_schema ==
            IF isinstance_dict(sample_record)
            THEN build_detailed_schema(sample_record,
                                       path_ \o <<"/">> \o sample_ts,
                                       depth + 1)
            ELSE [_type |-> infer_type(sample_record)]
    IN  [_path |-> path_,
         _type |-> "object",
         _key_pattern |-> "YYYY-MM-DD_HH-MM-SS_nanoseconds",
         _key_count |-> Len(keys),
         _sample_keys |->
             SubSeq(keys, 1, IF Len(keys) < 3 THEN Len(keys) ELSE 3),
         _record_schema |-> record_schema]

\* the record branch: every value a primitive
flat_record_node(data, path_, keys) ==
    [_path |-> path_,
     _type |-> "object",
     _keys |-> sorted(keys),
     _field_types |->
         [i \in 1..Len(keys) |-> <<keys[i], infer_type(Get(data, keys[i]))>>],
     _sample_values |->
         [i \in 1..Len(keys) |-> <<keys[i], Get(data, keys[i])>>]]

\* the last branch: recurse into every child, in sorted key order
container_node(data, path_, depth, keys) ==
    LET order == sorted(keys)
    IN  [_path |-> path_,
         _type |-> "object",
         _keys |-> sorted(keys),
         _key_count |-> Len(keys),
         _children |->
             [i \in 1..Len(order) |->
                 <<order[i],
                   build_detailed_schema(Get(data, order[i]),
                                         child_path(path_, order[i]),
                                         depth + 1)>>]]

\* a non-mapping, truthy node
leaf_node(data, path_) ==
    [_path |-> path_, _type |-> infer_type(data), _sample |-> data]

\* a falsy node
null_node(path_) == [_type |-> "null", _path |-> path_]

\* build_detailed_schema with the first test `if data is None`
build_detailed_schema_none_test(data, path_, depth) ==
    IF data = None THEN null_node(path_)
    ELSE IF isinstance_dict(data)
    THEN LET keys == Keys(data)
         IN  IF Len(keys) > 0 /\ ts_prefix_match(keys[1])
             THEN timestamp_node(data, path_, depth, keys)
             ELSE IF Len(keys) > 0 /\ all_primitive(data, keys)
             THEN flat_record_node(data, path_, keys)
             ELSE container_node(data, path_, depth, keys)
    ELSE leaf_node(data, path_)

\* build_detailed_schema(data, path, depth): the tests in source order
build_detailed_schema(data, path_, depth) ==
    IF ~Truthy(data) THEN null_node(path_)
    ELSE IF isinstance_dict(data)
    THEN LET keys == Keys(data)
         IN  IF Len(keys) > 0 /\ ts_prefix_match(keys[1])
             THEN timestamp_node(data, path_, depth, keys)
             ELSE IF Len(keys) > 0 /\ all_primitive(data, keys)
             THEN flat_record_node(data, path_, keys)
             ELSE container_node(data, path_, depth, keys)
    ELSE leaf_node(data, path_)

---------------------------------------------------------------------------
(* The inputs the checks draw from.                                        *)

\* keys of the five nesting levels; sorted order differs from listing order
DeviceKeys == {<<"D", "2">>, <<"D", "1">>, <<"D", "1", "0">>}
SensorKeys == {<<"B", "2">>, <<"B", "1">>}
HpKeys == {<<"H", "p", "2">>, <<"H", "p", "1">>}
FieldKeys == {<<"b">>, <<"a">>, <<"c">>}

\* "2026-02-02_09-38-35_398398000": matches ts_regex and the prefix pattern
T1 ==
    <<"2", "0", "2", "6", "-", "0", "2", "-", "0", "2", "_",
      "0", "9", "-", "3", "8", "-", "3", "5", "_",
      "3", "9", "8", "3", "9", "8", "0", "0", "0">>
\* "2026-02-02_09-38-36_398398001": likewise
T2 ==
    <<"2", "0", "2", "6", "-", "0", "2", "-", "0", "2", "_",
      "0", "9", "-", "3", "8", "-", "3", "6", "_",
      "3", "9", "8", "3", "9", "8", "0", "0", "1">>
\* "2026-02-02": matches neither
TDate == <<"2", "0", "2", "6", "-", "0", "2", "-", "0", "2">>
\* "2026-02-02_x": matches the prefix pattern only
TPrefix ==
    <<"2", "0", "2", "6", "-", "0", "2", "-", "0", "2", "_", "x">>
\* "1999-01-01_0": matches the prefix pattern only, sorts before the others
TEarly ==
    <<"1", "9", "9", "9", "-", "0", "1", "-", "0", "1", "_", "0">>
Temp == <<"t", "e", "m", "p">>
Humidity == <<"h", "u", "m", "i", "d", "i", "t", "y">>
Root == <<"r", "o", "o", "t">>

\* the sequences of m distinct elements of K
InjSeqs(K, m) ==
    {ks \in [1..m -> K] : \A i, j \in 1..m : i # j => ks[i] # ks[j]}

\* the mappings of at most n entries, keys from K, values from V, in every
\* iteration order
Dicts(K, V, n) ==
    UNION {{Dict([i \in 1..m |-> <<ks[i], vs[i]>>]) :
                ks \in InjSeqs(K, m), vs \in [1..m -> V]} : m \in 0..n}

\* a mapping of one entry
Chain(k, v) == Dict(<<<<k, v>>>>)

\* the value a generated record holds under each field
FieldValue(k) ==
    IF k = <<"a">> THEN IntV(40)
    ELSE IF k = <<"b">> THEN Float(215)
    ELSE Str(<<"x">>)

\* leaf records: fields in every order, at most MaxWidth of them
Records ==
    UNION {{Dict([i \in 1..m |-> <<ks[i], FieldValue(ks[i])>>]) :
                ks \in InjSeqs(FieldKeys, m)} : m \in 0..MaxWidth}

RecBA == Dict(<<<<(<<"b">>), Float(215)>>, <<(<<"a">>), IntV(40)>>>>)
RecCB == Dict(<<<<(<<"c">>), Bool(TRUE)>>, <<(<<"b">>), None>>>>)

\* what a timestamp entry may hold: a record, or something that is none
TsVals == Records \cup {IntV(5), List(<<RecCB>>)}
HpNodes == Dicts({T1, TDate}, TsVals, MaxWidth)

\* smaller palettes for the levels above a wide one
NarrowTsVals == {Dict(<<>>), RecBA, RecCB, IntV(5)}
NarrowHpNodes == Dicts({T1, TDate}, NarrowTsVals, 1)
NarrowHpVals == NarrowHpNodes \cup {Str(<<"x">>), List(<<Chain(T1, RecBA)>>)}
SensorNodes == Dicts(HpKeys, NarrowHpVals, MaxWidth)

SmallHpVals ==
    {Chain(T1, Dict(<<>>)), Chain(T2, RecBA), Chain(TDate, RecCB), IntV(0)}
NarrowSensorNodes == Dicts(HpKeys, SmallHpVals, 1)
NarrowSensorVals ==
    NarrowSensorNodes
        \cup {Bool(TRUE), List(<<Chain(<<"H", "p", "1">>, Chain(T1, RecBA))>>)}
DeviceNodes == Dicts(SensorKeys, NarrowSensorVals, MaxWidth)

\* device nodes of one sensor, one heater profile and one timestamp entry,
\* and two values that are no mapping
SmallDeviceVals ==
    {Chain(<<"B", "1">>, Chain(<<"H", "p", "1">>, Chain(T1, Dict(<<>>)))),
     Chain(<<"B", "1">>, Chain(<<"H", "p", "2">>, Chain(T2, RecBA))),
     Chain(<<"B", "2">>, Chain(<<"H", "p", "1">>, Chain(TDate, RecCB))),
     Chain(<<"B", "1">>, Chain(<<"H", "p", "1">>, Chain(T1, Str(<<"x">>)))),
     None,
     List(<<Chain(<<"B", "1">>,
                  Chain(<<"H", "p", "1">>, Chain(T1, RecBA)))>>)}
Trees == Dicts(DeviceKeys, SmallDeviceVals, MaxWidth)

\* arguments that are not a mapping
NonMappings ==
    {None, Bool(FALSE), Bool(TRUE), IntV(0), IntV(40), Float(0), Float(215),
     Str(<<>>), Str(<<"x">>), List(<<>>), List(<<IntV(1)>>),
     List(<<Chain(<<"D", "1">>, Dict(<<>>))>>)}

\* the arguments of extract_complete_schema: each level wide in turn, under
\* a chain of single entries, and the arguments that are not a mapping
ExtractInputs ==
    NonMappings
        \cup Trees
        \cup {Chain(<<"D", "1">>, d) : d \in DeviceNodes}
        \cup {Chain(<<"D", "1">>, Chain(<<"B", "1">>, n)) : n \in SensorNodes}
        \cup {Chain(<<"D", "1">>,
                    Chain(<<"B", "1">>, Chain(<<"H", "p", "1">>, h))) :
                  h \in HpNodes}

\* primitive values of a flat record
FlatVals == {None, Bool(TRUE), IntV(0), IntV(40), Float(215), Str(<<>>)}
FlatDicts == Dicts({Temp, Humidity, TPrefix}, FlatVals, MaxWidth)

\* mappings with timestamp keys among their keys: the first entry holds a
\* value of FirstVals, the others one of OtherVals
TsKeyPool == {T1, TEarly, TPrefix, Temp}
FirstVals ==
    {Dict(<<>>), IntV(5), Chain(Temp, IntV(1)),
     Chain(Temp, Chain(Humidity, IntV(2)))}
OtherVals == {Chain(Temp, IntV(2)), Str(<<"x">>)}
TsDicts ==
    UNION {{Dict([i \in 1..m |-> <<ks[i], IF i = 1 THEN f ELSE vs[i]>>]) :
                ks \in InjSeqs(TsKeyPool, m), f \in FirstVals,
                vs \in [2..m -> OtherVals]} : m \in 1..MaxTsKeys}

\* mappings of nested values
ContainerVals ==
    {None, List(<<IntV(1)>>), Dict(<<>>), Chain(Temp, Float(215)),
     Chain(T1, Chain(Temp, IntV(1))),
     Chain(<<"B", "1">>, Chain(Temp, IntV(1)))}
Containers == Dicts(DeviceKeys, ContainerVals, MaxWidth)

\* the arguments of build_detailed_schema
BuildInputs == NonMappings \cup FlatDicts \cup TsDicts \cup Containers
BuildPaths == {<<>>, Root}

\* what the endpoint may answer the one GET with
FetchValues == NonMappings \cup Trees

\* sys.argv
Prog == <<"s">>
OutputFlag == <<"-", "-", "o", "u", "t", "p", "u", "t">>
OutName == <<"o">>
ArgvChoices ==
    {<<Prog>>,
     <<Prog, OutputFlag>>,
     <<Prog, OutputFlag, OutName>>,
     <<Prog, OutputFlag, <<>>>>,
     <<Prog, OutName, OutputFlag, OutName>>,
     <<Prog, OutputFlag, OutputFlag, OutName>>}

---------------------------------------------------------------------------
(* main().                                                                 *)

\* sys.argv.index("--output")
index_of(list, x) ==
    CHOOSE i \in 1..Len(list) :
        list[i] = x /\ \A j \in 1..(i - 1) : list[j] # x

\* the value main() gives output_file
parse_output_file(args) ==
    IF OutputFlag \in Range(args)
    THEN LET idx == index_of(args, OutputFlag)
         IN  IF idx + 1 <= Len(args) THEN Str(args[idx + 1]) ELSE None
    ELSE None

\* main() up to the call of fetch("", shallow=False, timeout=180): the
\* arguments are read, the banner printed and the request sent
Main_Start ==
    /\ pc = "start"
    /\ output_file' = parse_output_file(argv)
    /\ stdout' = stdout \o <<"banner">>
    /\ fetch_calls' = fetch_calls + 1
    /\ pc' = "fetching"
    /\ UNCHANGED <<argv, full_data, complete_schema, detailed_schema,
                   extract_calls, build_calls, files, arg, path, ret, called>>

\* fetch() returns resp.json()
Fetch_Ok ==
    /\ pc = "fetching"
    /\ \E v \in FetchValues : full_data' = v
    /\ pc' = "fetched"
    /\ UNCHANGED <<argv, output_file, complete_schema, detailed_schema,
                   fetch_calls, extract_calls, build_calls, stdout, files,
                   arg, path, ret, called>>

\* fetch() catches a RequestException, prints it and returns None
Fetch_Error ==
    /\ pc = "fetching"
    /\ full_data' = None
    /\ stdout' = stdout \o <<"Error fetching">>
    /\ pc' = "fetched"
    /\ UNCHANGED <<argv, output_file, complete_schema, detailed_schema,
                   fetch_calls, extract_calls, build_calls, files,
                   arg, path, ret, called>>

\* Main_Check without the `return`: the failure is printed and main goes on
Main_Check_NoReturn ==
    /\ pc = "fetched"
    /\ stdout' = stdout \o <<IF full_data = None THEN "Failed to load data."
                             ELSE "Data loaded">>
    /\ pc' = "loaded"
    /\ UNCHANGED <<argv, output_file, full_data, complete_schema,
                   detailed_schema, fetch_calls, extract_calls, build_calls,
                   files, arg, path, ret, called>>

\* `if full_data is None: print("Failed to load data."); return`
Main_Check ==
    /\ pc = "fetched"
    /\ IF full_data = None
       THEN /\ stdout' = stdout \o <<"Failed to load data.">>
            /\ pc' = "done"
       ELSE /\ stdout' = stdout \o <<"Data loaded">>
            /\ pc' = "loaded"
    /\ UNCHANGED <<argv, output_file, full_data, complete_schema,
                   detailed_schema, fetch_calls, extract_calls, build_calls,
                   files, arg, path, ret, called>>

\* the rest of main(): both schemas, both report sections, the file
Main_Report ==
    /\ pc = "loaded"
    /\ complete_schema' = extract_complete_schema(full_data)
    /\ extract_calls' = extract_calls + 1
    /\ detailed_schema' = build_detailed_schema(full_data, Root, 0)
    /\ build_calls' = build_calls + 1
    /\ IF Truthy(output_file)
       THEN /\ files' = files \cup
                   {[name |-> output_file.s,
                     complete_schema |-> complete_schema',
                     detailed_schema |-> detailed_schema']}
            /\ stdout' = stdout \o
                   <<"--- COMPLETE SCHEMA", "print_schema",
                     "--- DETAILED SCHEMA", "print_schema",
                     "Schema saved", "Done.">>
       ELSE /\ files' = files
            /\ stdout' = stdout \o
                   <<"--- COMPLETE SCHEMA", "print_schema",
                     "--- DETAILED SCHEMA", "print_schema", "Done.">>
    /\ pc' = "done"
    /\ UNCHANGED <<argv, output_file, full_data, fetch_calls,
                   arg, path, ret, called>>

Init ==
    /\ pc = "start"
    /\ argv \in ArgvChoices
    /\ output_file = None
    /\ full_data = None
    /\ complete_schema = None
    /\ detailed_schema = None
    /\ fetch_calls = 0
    /\ extract_calls = 0
    /\ build_calls = 0
    /\ stdout = <<>>
    /\ files = {}
    /\ arg = None
    /\ path = <<>>
    /\ ret = None
    /\ called = "none"

Next == Main_Start \/ Fetch_Ok \/ Fetch_Error \/ Main_Check \/ Main_Report

\* one run of main()
Spec == Init /\ [][Next]_vars

---------------------------------------------------------------------------
(* Direct calls of the two schema functions, as a test or an importing     *)
(* module makes them: one argument, one call, one result.                  *)

CallArgs == ExtractInputs \cup BuildInputs

InitCalls ==
    /\ pc = "idle"
    /\ argv = <<Prog>>
    /\ output_file = None
    /\ full_data = None
    /\ complete_schema = None
    /\ detailed_schema = None
    /\ fetch_calls = 0
    /\ extract_calls = 0
    /\ build_calls = 0
    /\ stdout = <<>>
    /\ files = {}
    /\ arg \in CallArgs
    /\ path = <<>>
    /\ ret = None
    /\ called = "none"

\* ret = extract_complete_schema(arg)
Call_extract_complete_schema ==
    /\ pc = "idle"
    /\ called = "none"
    /\ ret' = extract_complete_schema(arg)
    /\ called' = "extract_complete_schema"
    /\ UNCHANGED <<pc, argv, output_file, full_data, complete_schema,
                   detailed_schema, fetch_calls, extract_calls, build_calls,
                   stdout, files, arg, path>>

\* ret = build_detailed_schema(arg, path), the path any of BuildPaths
Call_build_detailed_schema ==
    /\ pc = "idle"
    /\ called = "none"
    /\ \E p \in BuildPaths :
           /\ path' = p
           /\ ret' = build_detailed_schema(arg, p, 0)
    /\ called' = "build_detailed_schema"
    /\ UNCHANGED <<pc, argv, output_file, full_data, complete_schema,
                   detailed_schema, fetch_calls, extract_calls, build_calls,
                   stdout, files, arg>>

NextCalls == Call_extract_complete_schema \/ Call_build_detailed_schema

SpecCalls == InitCalls /\ [][NextCalls]_vars

---------------------------------------------------------------------------
(* Properties of a run of main().                                          *)

\* the markers of the two report sections and of the saved file
ReportMarkers ==
    {"Data loaded", "--- COMPLETE SCHEMA", "--- DETAILED SCHEMA",
     "print_schema", "Schema saved", "Done."}

\* fetch has returned null to main
FetchFailed == pc \in {"fetched", "loaded", "done"} /\ full_data = None

\* C1: fetch is called exactly once in every run (never twice, and once as
\* soon as main has reached the call), and when it returns null the run ends
\* at the check: neither schema function is ever called, no report section
\* is printed, no file is written whatever --output says, and main is over
\* with "Failed to load data." as its last line.
C1_FetchFailureEndsRun ==
    /\ fetch_calls = (IF pc = "start" THEN 0 ELSE 1)
    /\ FetchFailed =>
          /\ pc # "loaded"
          /\ extract_calls = 0
          /\ build_calls = 0
          /\ complete_schema = None
          /\ detailed_schema = None
          /\ files = {}
          /\ Range(stdout) \cap ReportMarkers = {}
    /\ (FetchFailed /\ pc = "done") =>
          /\ stdout[Len(stdout)] = "Failed to load data."
          /\ ~ENABLED Next

\* a failed fetch in a run given --output <file>, after main has returned
C1_Witness ==
    /\ pc = "done"
    /\ full_data = None
    /\ "Error fetching" \in Range(stdout)
    /\ output_file = Str(OutName)

---------------------------------------------------------------------------
(* Properties of extract_complete_schema.  What the tree holds is read off *)
(* the tree by position, without the traversal of the function.            *)

Extracted == called = "extract_complete_schema"

\* the value of entry i of mapping d
At(d, i) == d.items[i][2]

IsMapping(v) == v.t = "dict"

\* the positions <<i>> of the devices that are mappings, <<i, j>> of the
\* sensors that are, <<i, j, k>> of the heater profiles that are
DevicePos(tree) ==
    {<<i>> : i \in {x \in 1..Len(tree.items) : IsMapping(At(tree, x))}}
SensorPos(tree) ==
    UNION {{<<p[1], j>> :
              j \in {x \in 1..Len(At(tree, p[1]).items) :
                       IsMapping(At(At(tree, p[1]), x))}} :
           p \in DevicePos(tree)}
HpPos(tree) ==
    UNION {{<<p[1], p[2], k>> :
              k \in {x \in 1..Len(At(At(tree, p[1]), p[2]).items) :
                       IsMapping(At(At(At(tree, p[1]), p[2]), x))}} :
           p \in SensorPos(tree)}
\* the positions <<i, j, k, l>> of the entries at the timestamp level
TsPos(tree) ==
    UNION {{<<p[1], p[2], p[3], l>> :
              l \in 1..Len(At(At(At(tree, p[1]), p[2]), p[3]).items)} :
           p \in HpPos(tree)}
\* the value at a timestamp position
Leaf(tree, p) == At(At(At(At(tree, p[1]), p[2]), p[3]), p[4])
\* the leaf records: the timestamp entries that hold a mapping
RecordPos(tree) == {p \in TsPos(tree) : IsMapping(Leaf(tree, p))}

\* the distinct keys of the three upper levels
DeviceKeysOf(tree) == Range(Keys(tree))
SensorKeysOf(tree) ==
    UNION {Range(Keys(At(tree, p[1]))) : p \in DevicePos(tree)}
HpKeysOf(tree) ==
    UNION {Range(Keys(At(At(tree, p[1]), p[2]))) : p \in SensorPos(tree)}
\* the field names of all leaf records
FieldsOf(tree) == UNION {Range(Keys(Leaf(tree, p))) : p \in RecordPos(tree)}

\* s lists exactly the elements of S, in strictly ascending order
IsSortedListOf(s, S) ==
    /\ Range(s) = S
    /\ \A i \in 1..(Len(s) - 1) : StrLess(s[i], s[i + 1])

C3_DefaultSchema ==
    (Extracted /\ (~IsMapping(arg) \/ arg = Dict(<<>>))) =>
        /\ DOMAIN ret = {"structure", "levels", "record_fields", "stats"}
        /\ ret.stats = [total_devices |-> 0, total_sensors |-> 0,
                        total_hps |-> 0, total_records |-> 0]
        /\ DOMAIN ret.levels = {}
        /\ ret.record_fields = None

\* the empty mapping has been passed
C3_Witness == Extracted /\ arg = Dict(<<>>)

\* C4 as claimed: for every mapping tree record_fields.keys is the sorted
\* union of the field names of the leaf records and record_fields.count its
\* size.
C4_Original ==
    (Extracted /\ IsMapping(arg)) =>
        /\ ret.record_fields # None
        /\ IsSortedListOf(ret.record_fields.keys, FieldsOf(arg))
        /\ ret.record_fields.count = Cardinality(FieldsOf(arg))

\* C4, amended: the same for every non-empty mapping tree (for the empty
\* mapping record_fields is null).
C4_RecordFieldsSortedUnion ==
    (Extracted /\ IsMapping(arg) /\ Len(arg.items) > 0) =>
        /\ ret.record_fields # None
        /\ IsSortedListOf(ret.record_fields.keys, FieldsOf(arg))
        /\ ret.record_fields.count = Cardinality(FieldsOf(arg))

\* two records with fields {a, b} and {b, c}, neither written in order
C4_Witness ==
    /\ Extracted
    /\ IsMapping(arg)
    /\ \E p, q \in RecordPos(arg) :
          /\ Keys(Leaf(arg, p)) = <<(<<"b">>), (<<"a">>)>>
          /\ Keys(Leaf(arg, q)) = <<(<<"c">>), (<<"b">>)>>
    /\ ret.record_fields.keys = <<(<<"a">>), (<<"b">>), (<<"c">>)>>
    /\ ret.record_fields.count = 3

\* the tree with every node that is no mapping, where one is expected,
\* replaced by the empty mapping; n levels of mappings are expected below v
RECURSIVE Prune(_, _)
Prune(v, n) ==
    IF ~IsMapping(v) THEN Dict(<<>>)
    ELSE IF n = 0 THEN v
    ELSE Dict([i \in 1..Len(v.items) |->
                  <<v.items[i][1], Prune(v.items[i][2], n - 1)>>])

\* the device, sensor, heater-profile and record levels lie below the tree
PrunedTree(tree) == Prune(tree, 4)

\* C7: on every mapping tree the traversal returns a schema, and a node that
\* is no mapping where one is expected is a dead branch: the result is the
\* one for the tree with each such node replaced by an empty mapping, and
\* the key sets, the record fields and the record count are those of the
\* positions reached through mappings alone.
C7_NonMappingsAreDeadBranches ==
    (Extracted /\ IsMapping(arg)) =>
        /\ DOMAIN ret = {"structure", "levels", "record_fields", "stats"}
        /\ ret = extract_complete_schema(PrunedTree(arg))
        /\ Len(arg.items) > 0 =>
              /\ Range(ret.levels.root.keys) = DeviceKeysOf(arg)
              /\ Range(ret.levels.device.keys) = SensorKeysOf(arg)
              /\ Range(ret.levels.sensor.keys) = HpKeysOf(arg)
              /\ Range(ret.record_fields.keys) = FieldsOf(arg)
              /\ ret.stats.total_records = Cardinality(TsPos(arg))

\* a timestamp entry holds a sequence with a record in it, beside a record
C7_Witness ==
    /\ Extracted
    /\ IsMapping(arg)
    /\ \E p \in TsPos(arg) :
          /\ Leaf(arg, p).t = "list"
          /\ \E i \in 1..Len(Leaf(arg, p).elems) :
                /\ IsMapping(Leaf(arg, p).elems[i])
                /\ Range(Keys(Leaf(arg, p).elems[i])) \ FieldsOf(arg) # {}
    /\ FieldsOf(arg) # {}
    /\ ret.stats.total_records = 2

\* the key lists the aggregated schema holds
KeyListsOf(schema) ==
    {schema.levels[l] :
        l \in DOMAIN schema.levels \cap {"root", "device", "sensor"}}
        \cup (IF schema.record_fields = None THEN {}
              ELSE {[keys |-> schema.record_fields.keys,
                     count |-> schema.record_fields.count,
                     type |-> "object",
                     description |-> schema.record_fields.description]})

\* C8: on every mapping tree each key list of the aggregated schema is in
\* strictly ascending order, so sorted and free of duplicates, and its count
\* is its length.
C8_KeyListsSortedDistinct ==
    (Extracted /\ IsMapping(arg)) =>
        \A e \in KeyListsOf(ret) :
            /\ \A i \in 1..(Len(e.keys) - 1) :
                  StrLess(e.keys[i], e.keys[i + 1])
            /\ e.count = Len(e.keys)

\* two devices listed out of order, each with a sensor of one name
C8_Witness ==
    /\ Extracted
    /\ IsMapping(arg)
    /\ Keys(arg) = <<(<<"D", "2">>), (<<"D", "1", "0">>)>>
    /\ ret.levels.root.keys = <<(<<"D", "1", "0">>), (<<"D", "2">>)>>
    /\ Cardinality(SensorPos(arg)) > Len(ret.levels.device.keys)
    /\ Cardinality(KeyListsOf(ret)) = 4

---------------------------------------------------------------------------
(* Properties of build_detailed_schema and of the sampled record.          *)

Built == called = "build_detailed_schema"

\* the name of the JSON type of a value
TypeName(v) ==
    CASE v.t = "null" -> "null"
      [] v.t = "bool" -> "boolean"
      [] v.t = "int" -> "integer"
      [] v.t = "float" -> "float"
      [] v.t = "str" -> "string"
      [] v.t = "dict" -> "object"
      [] v.t = "list" -> "array"

\* a mapping whose first key in iteration order has the timestamp prefix
IsTsContainer(v) ==
    IsMapping(v) /\ Len(v.items) > 0 /\ ts_prefix_match(v.items[1][1])

\* the mapping with every value but the first replaced by null
OthersBlanked(v) ==
    Dict([i \in 1..Len(v.items) |->
             <<v.items[i][1], IF i = 1 THEN v.items[i][2] ELSE None>>])

\* C5: a mapping whose first key in iteration order has the timestamp prefix
\* gives a timestamp-container node: _key_count is the number of keys,
\* _sample_keys the first three keys in iteration order, _record_schema the
\* schema of the entry at the first key, and no other entry is read (the
\* node is the same with every other value replaced by null).
C5_TimestampContainer ==
    (Built /\ IsTsContainer(arg)) =>
        /\ DOMAIN ret = {"_path", "_type", "_key_pattern", "_key_count",
                         "_sample_keys", "_record_schema"}
        /\ ret._path = path
        /\ ret._type = "object"
        /\ ret._key_pattern = "YYYY-MM-DD_HH-MM-SS_nanoseconds"
        /\ ret._key_count = Len(arg.items)
        /\ Len(ret._sample_keys) =
              (IF Len(arg.items) < 3 THEN Len(arg.items) ELSE 3)
        /\ \A i \in 1..Len(ret._sample_keys) :
              ret._sample_keys[i] = arg.items[i][1]
        /\ ret._record_schema =
              (IF IsMapping(arg.items[1][2])
               THEN build_detailed_schema(arg.items[1][2],
                                          path \o <<"/">> \o arg.items[1][1], 1)
               ELSE [_type |-> TypeName(arg.items[1][2])])
        /\ ret = build_detailed_schema(OthersBlanked(arg), path, 0)

\* four timestamp-like keys, the first in iteration order not the first in
\* sorted order, the first entry a record and the others not null
C5_Witness ==
    /\ Built
    /\ IsTsContainer(arg)
    /\ Len(arg.items) = 4
    /\ arg.items[1][1] = TPrefix
    /\ arg.items[3][1] = TEarly
    /\ arg.items[1][2] = Chain(Temp, IntV(1))
    /\ arg # OthersBlanked(arg)
    /\ ret._sample_keys = <<TPrefix, arg.items[2][1], TEarly>>

\* every value of the mapping is a primitive
AllPrimitive(v) ==
    \A i \in 1..Len(v.items) : v.items[i][2].t \notin {"dict", "list"}

\* node is the flat-record node of mapping v built at path p
IsFlatRecordNode(node, v, p) ==
    /\ DOMAIN node = {"_path", "_type", "_keys", "_field_types",
                      "_sample_values"}
    /\ node._path = p
    /\ node._type = "object"
    /\ IsSortedListOf(node._keys, Range(Keys(v)))
    /\ Len(node._field_types) = Len(v.items)
    /\ \A i \in 1..Len(v.items) :
          node._field_types[i] = <<v.items[i][1], TypeName(v.items[i][2])>>
    /\ node._sample_values = v.items

\* C6 as claimed, on the mappings that have an entry: every mapping whose
\* values are all primitives gives a flat-record node.
C6_Original ==
    (Built /\ IsMapping(arg) /\ Len(arg.items) > 0 /\ AllPrimitive(arg)) =>
        IsFlatRecordNode(ret, arg, path)

\* C6, amended: a non-empty mapping whose values are all primitives and whose
\* first key in iteration order has not the timestamp prefix gives a
\* flat-record node: _keys the sorted keys, _field_types the type name of
\* every value, _sample_values every raw value.
C6_FlatRecord ==
    (Built /\ IsMapping(arg) /\ AllPrimitive(arg)
       /\ Len(arg.items) > 0 /\ ~IsTsContainer(arg)) =>
        IsFlatRecordNode(ret, arg, path)

\* {"temp": 21.5, "humidity": 40}
C6_Witness ==
    /\ Built
    /\ arg = Dict(<<<<Temp, Float(215)>>, <<Humidity, IntV(40)>>>>)
    /\ ret._keys = <<Humidity, Temp>>
    /\ ret._field_types = <<<<Temp, "float">>, <<Humidity, "integer">>>>

\* lexicographic order of positions of one length
RECURSIVE PosLess(_, _)
PosLess(p, q) ==
    IF p = <<>> THEN FALSE
    ELSE IF Head(p) # Head(q) THEN Head(p) < Head(q)
    ELSE PosLess(Tail(p), Tail(q))

\* the positions of the non-empty leaf records
NonEmptyRecordPos(tree) ==
    {p \in RecordPos(tree) : Len(Leaf(tree, p).items) > 0}

\* the first of them in iteration order
FirstNonEmptyRecord(tree) ==
    Leaf(tree, CHOOSE p \in NonEmptyRecordPos(tree) :
                   \A q \in NonEmptyRecordPos(tree) : q = p \/ PosLess(p, q))

\* field_types gives every field of the record, in order, its type name and
\* its value
DescribesRecord(field_types, record) ==
    /\ Len(field_types) = Len(record.items)
    /\ \A i \in 1..Len(record.items) :
          field_types[i] =
              <<record.items[i][1],
                [type |-> TypeName(record.items[i][2]),
                 sample |-> record.items[i][2]]>>

\* the sample of extract_complete_schema: the first non-empty leaf record in
\* iteration order when there is one, nothing otherwise
AggregatedSampleIsFirstNonEmpty ==
    (Extracted /\ IsMapping(arg) /\ Len(arg.items) > 0) =>
        IF NonEmptyRecordPos(arg) = {}
        THEN ret.record_fields.field_types = <<>>
        ELSE DescribesRecord(ret.record_fields.field_types,
                             FirstNonEmptyRecord(arg))

\* the indices of the entries of a mapping that are non-empty mappings
NonEmptyEntries(v) ==
    {i \in 1..Len(v.items) :
        IsMapping(v.items[i][2]) /\ Len(v.items[i][2].items) > 0}

\* node is the schema of a non-empty mapping built at path p
IsSchemaOfRecordAt(node, p) ==
    /\ {"_path", "_type"} \subseteq DOMAIN node
    /\ node._path = p
    /\ node._type = "object"

\* C9 as claimed: the sample of both schemas is the first non-empty record
\* in iteration order whenever one exists.
C9_Original ==
    /\ AggregatedSampleIsFirstNonEmpty
    /\ (Built /\ IsTsContainer(arg) /\ NonEmptyEntries(arg) # {}) =>
          LET i == CHOOSE j \in NonEmptyEntries(arg) :
                       \A k \in NonEmptyEntries(arg) : j <= k
          IN  IsSchemaOfRecordAt(ret._record_schema,
                                 path \o <<"/">> \o arg.items[i][1])

\* C9, amended: record_fields.field_types of extract_complete_schema
\* describes the first non-empty leaf record in iteration order whenever one
\* exists; the _record_schema of a timestamp container describes the entry
\* at the first key in iteration order, whether or not that entry is a
\* non-empty record: the schema of the record at that key when it is one, a
\* null leaf at that key when it is an empty mapping, and the bare type name
\* of the value when it is no mapping.
C9_SampleRecords ==
    /\ AggregatedSampleIsFirstNonEmpty
    /\ (Built /\ IsTsContainer(arg)) =>
          LET first == arg.items[1][2]
              at == path \o <<"/">> \o arg.items[1][1]
          IN  IF ~IsMapping(first)
              THEN ret._record_schema = [_type |-> TypeName(first)]
              ELSE IF Len(first.items) = 0
              THEN ret._record_schema = [_type |-> "null", _path |-> at]
              ELSE IsSchemaOfRecordAt(ret._record_schema, at)

\* an empty record precedes a non-empty record, which is the sample
C9_Witness ==
    /\ Extracted
    /\ IsMapping(arg)
    /\ \E p \in TsPos(arg), q \in NonEmptyRecordPos(arg) :
          /\ Leaf(arg, p) = Dict(<<>>)
          /\ PosLess(p, q)
          /\ Keys(Leaf(arg, q)) = <<(<<"c">>), (<<"a">>)>>
          /\ ret.record_fields.field_types =
                <<<<(<<"c">>), [type |-> "string", sample |-> Str(<<"x">>)]>>,
                  <<(<<"a">>), [type |-> "integer", sample |-> IntV(40)]>>>>

\* the values Python takes for false
FalsyValues ==
    {None, Bool(FALSE), IntV(0), Float(0), Str(<<>>), Dict(<<>>), List(<<>>)}

\* C10: the null/falsy test comes first: null, false, 0, 0.0, the empty
\* string, the empty mapping and the empty sequence give a leaf of _type
\* "null" holding only the path; every other value that is no mapping gives
\* a leaf with the type name of the value as _type and the value as _sample.
C10_NullAndPrimitiveLeaves ==
    /\ (Built /\ arg \in FalsyValues) =>
          ret = [_type |-> "null", _path |-> path]
    /\ (Built /\ arg \notin FalsyValues /\ ~IsMapping(arg)) =>
          ret = [_path |-> path, _type |-> TypeName(arg), _sample |-> arg]

\* the integer 0, present and falsy, at path "root"
C10_Witness ==
    /\ Built
    /\ arg = IntV(0)
    /\ path = Root
    /\ ret = [_type |-> "null", _path |-> Root]

===========================================================================
